---- MODULE Spec2Model ----
(***************************************************************************)
(* Model of the patch / window indexing engine of tract                    *)
(* (core/src/ops/cnn/patches.rs): PatchSpec::into_patch, Patch::is_valid,  *)
(* the zone visitors, Patch::at_hint with its two iterators, and           *)
(* Patch::global_offset_for.                                               *)
(*                                                                         *)
(* Conventions.                                                            *)
(*  - Rust vectors are TLA+ sequences; axis ix of the source is position   *)
(*    ix + 1 here.  Coordinates, extents and offsets keep their values.    *)
(*  - Range<usize> a..b is the record [start |-> a, end |-> b].            *)
(*  - Option<isize> is the record [some |-> BOOLEAN, val |-> Int].         *)
(*  - usize arithmetic that can leave 0..2^64-1 is modelled with the       *)
(*    variable overflow_checks: TRUE is a build with overflow checks (the  *)
(*    operation panics), FALSE a build without (the value wraps).  TLC's   *)
(*    integers are 32 bits wide, so the wrap is taken modulo UsizeModulus, *)
(*    a power of two far above every extent of the model; only the order   *)
(*    of a wrapped value against the extents matters to the code.          *)
(***************************************************************************)
EXTENDS Integers, Sequences, FiniteSets, TLC

VARIABLES
    spec,             \* the PatchSpec handed to into_patch
    overflow_checks,  \* TRUE: arithmetic overflow panics; FALSE: it wraps
    pc,               \* "spec" | "built" | "panicked"
    patch,            \* the Patch returned by into_patch (when pc = "built")
    it,               \* the current PatchIterator
    yielded,          \* the items the current PatchIterator has yielded
    goff,             \* the last global_offset_for call and its result
    visit,            \* the current visit_all_* iterator
    visited           \* the coordinates the current visitor has yielded

vars == <<spec, overflow_checks, pc, patch, it, yielded, goff, visit, visited>>

----------------------------------------------------------------------------
(* Bounds of the model *)

MaxInput == 5
MaxKernel == 3
MaxStride == 2
MaxDilation == 2
MaxPad == 2
MaxInnerStride == 2
MaxWeight == 5
MaxOverrun == 2
MaxLen == 2

UsizeModulus == 2 ^ 16

----------------------------------------------------------------------------
(* Generic helpers *)

Min2(a, b) == IF a <= b THEN a ELSE b

Max2(a, b) == IF a >= b THEN a ELSE b

RECURSIVE SeqSum(_)
SeqSum(s) == IF s = <<>> THEN 0 ELSE Head(s) + SeqSum(Tail(s))

RECURSIVE SeqProduct(_)
SeqProduct(s) == IF s = <<>> THEN 1 ELSE Head(s) * SeqProduct(Tail(s))

SetMin(S) == CHOOSE x \in S : \A y \in S : x <= y

SetMax(S) == CHOOSE x \in S : \A y \in S : x >= y

\* zip(a, b).map(|(x, y)| x * y): stops at the shorter sequence
ZipMul(a, b) == [i \in 1..Min2(Len(a), Len(b)) |-> a[i] * b[i]]

\* unsigned ceiling division
div_ceil(a, b) == (a + b - 1) \div b

\* `x as usize` for a signed x
as_usize(x) == x % UsizeModulus

Some(x) == [some |-> TRUE, val |-> x]

None == [some |-> FALSE, val |-> 0]

Range(a, b) == [start |-> a, end |-> b]

\* ndarray::indices(shape) in its iteration order (row-major, last axis fastest)
RECURSIVE indices(_)
indices(shape) ==
    IF shape = <<>> THEN << <<>> >>
    ELSE LET rest == indices(Tail(shape))
             n == Len(rest)
         IN [j \in 1..(Head(shape) * n) |->
                <<(j - 1) \div n>> \o rest[((j - 1) % n) + 1]]

----------------------------------------------------------------------------
(* The padding resolver PaddingSpec::compute (not part of patches.rs) *)

Valid == [kind |-> "Valid", bef |-> <<>>, aft |-> <<>>]

SameUpper == [kind |-> "SameUpper", bef |-> <<>>, aft |-> <<>>]

SameLower == [kind |-> "SameLower", bef |-> <<>>, aft |-> <<>>]

Explicit(bef, aft) == [kind |-> "Explicit", bef |-> bef, aft |-> aft]

kernel_field(kernel, dilation) == (kernel - 1) * dilation + 1

\* explicit pad amounts: the window must fit the padded input at least once
explicit(input, kernel, dilation, stride, bef, aft) ==
    LET field == kernel_field(kernel, dilation)
    IN IF input + bef + aft < field
       THEN [ok |-> FALSE, output |-> 0, pad_before |-> 0, pad_after |-> 0]
       ELSE [ok |-> TRUE,
             output |-> (input + bef + aft - field) \div stride + 1,
             pad_before |-> bef, pad_after |-> aft]

\* "same" policies: output size ceil(input / stride), the odd pad element
\* placed after (upper) or before (lower)
same(input, kernel, dilation, stride, upper) ==
    LET output == div_ceil(input, stride)
        pad == Max2(0, (output - 1) * stride + kernel_field(kernel, dilation) - input)
        lower_pad == pad \div 2
        higher_pad == pad - lower_pad
    IN [ok |-> TRUE, output |-> output,
        pad_before |-> IF upper THEN lower_pad ELSE higher_pad,
        pad_after |-> IF upper THEN higher_pad ELSE lower_pad]

compute_one(padding, axis, input, kernel, dilation, stride) ==
    CASE padding.kind = "Valid" -> explicit(input, kernel, dilation, stride, 0, 0)
      [] padding.kind = "Explicit" ->
            explicit(input, kernel, dilation, stride, padding.bef[axis], padding.aft[axis])
      [] padding.kind = "SameUpper" -> same(input, kernel, dilation, stride, TRUE)
      [] padding.kind = "SameLower" -> same(input, kernel, dilation, stride, FALSE)

\* the resolver is called once per axis of input_shape; it needs an element
\* of every other sequence on each of these axes
compute_defined(s) ==
    /\ Len(s.kernel_shape) >= Len(s.input_shape)
    /\ Len(s.dilations) >= Len(s.input_shape)
    /\ Len(s.strides) >= Len(s.input_shape)
    /\ s.padding.kind = "Explicit" =>
          /\ Len(s.padding.bef) >= Len(s.input_shape)
          /\ Len(s.padding.aft) >= Len(s.input_shape)

compute(s) ==
    [d \in 1..Len(s.input_shape) |->
        compute_one(s.padding, d, s.input_shape[d], s.kernel_shape[d],
                    s.dilations[d], s.strides[d])]

compute_ok(s) ==
    /\ compute_defined(s)
    /\ \A d \in 1..Len(s.input_shape) : compute(s)[d].ok

----------------------------------------------------------------------------
(* PatchSpec::into_patch *)

\* mutant of data_field: the padding is subtracted before the dilation is applied
data_field_pad_first(s, pad_before) ==
    LET taps == indices(s.kernel_shape)
    IN [r \in 1..Len(taps) |->
          [ix \in 1..Len(s.kernel_shape) |->
              (taps[r][ix] - pad_before[ix]) * s.dilations[ix]]]

\* one row per kernel tap, one column per kernel axis
data_field(s, pad_before) ==
    LET taps == indices(s.kernel_shape)
    IN [r \in 1..Len(taps) |->
          [ix \in 1..Len(s.kernel_shape) |->
              taps[r][ix] * s.dilations[ix] - pad_before[ix]]]

\* per column of data_field, its (min, max)
data_field_min_max(df, ncols) ==
    [a \in 1..ncols |->
        LET col == {df[r][a] : r \in 1..Len(df)}
        IN <<SetMin(col), SetMax(col)>>]

Reverse(s) == [i \in 1..Len(s) |-> s[Len(s) + 1 - i]]

RECURSIVE push_strides(_, _)
push_strides(dims, acc) ==
    IF dims = <<>> THEN acc
    ELSE push_strides(Tail(dims), Append(acc, Head(dims) * acc[Len(acc)]))

input_layout_strides(s) ==
    Reverse(push_strides(Reverse(Tail(s.input_shape)), <<s.input_inner_stride>>))

standard_layout_data_field(df, layout) ==
    [r \in 1..Len(df) |-> SeqSum(ZipMul(df[r], layout))]

\* line 110: (-min_max.0 as usize).div_ceil(strides[ix])
zone_min(s, mm, ix) == div_ceil(as_usize(-mm[ix][1]), s.strides[ix])

\* line 112: the usize subtraction input_shape[ix] - min_max.1 as usize
zone_max_overflows(s, mm, ix) == s.input_shape[ix] < as_usize(mm[ix][2])

\* mutant of zone_max: the quotient of line 112 is rounded down
zone_max_floor(s, mm, ix) ==
    ((s.input_shape[ix] - as_usize(mm[ix][2])) % UsizeModulus) \div s.strides[ix]

zone_max(s, mm, ix) ==
    div_ceil((s.input_shape[ix] - as_usize(mm[ix][2])) % UsizeModulus, s.strides[ix])

\* while invalid.len() < output.len() { invalid.push(0..output[invalid.len()]) }
extend_zone(invalid, output) ==
    invalid \o [j \in 1..(Len(output) - Len(invalid)) |->
                   Range(0, output[Len(invalid) + j])]

\* the loop of lines 108-130, from axis ix on
RECURSIVE zones_loop(_, _, _, _, _)
zones_loop(s, output, mm, ix, acc) ==
    IF ix > Len(s.input_shape) THEN acc
    ELSE LET min == zone_min(s, mm, ix)
             max == zone_max(s, mm, ix)
             low == IF min # 0
                    THEN <<extend_zone(Append(acc.valid, Range(0, min)), output)>>
                    ELSE <<>>
             high == IF max < output[ix]
                     THEN <<extend_zone(Append(acc.valid, Range(max, output[ix])), output)>>
                     ELSE <<>>
         IN zones_loop(s, output, mm, ix + 1,
                       [valid |-> Append(acc.valid, Range(min, max)),
                        invalid |-> acc.invalid \o low \o high])

\* into_patch panics: the resolver fails, an index is out of bounds
\* (lines 81, 109), or the subtraction of line 112 overflows in a build
\* with overflow checks
into_patch_panics(s, checks) ==
    \/ ~compute_ok(s)
    \/ Len(s.kernel_shape) > Len(s.dilations)
    \/ Len(s.kernel_shape) > Len(s.input_shape)
    \/ LET dims == compute(s)
           pad_before == [d \in 1..Len(dims) |-> dims[d].pad_before]
           df == data_field(s, pad_before)
           mm == data_field_min_max(df, Len(s.kernel_shape))
       IN checks /\ \E ix \in 1..Len(s.input_shape) : zone_max_overflows(s, mm, ix)

\* line 69: the output extents are the resolver's
patch_output(dims) == [d \in 1..Len(dims) |-> dims[d].output]

into_patch(s) ==
    LET dims == compute(s)
        output == patch_output(dims)
        pad_before == [d \in 1..Len(dims) |-> dims[d].pad_before]
        pad_after == [d \in 1..Len(dims) |-> dims[d].pad_after]
        df == data_field(s, pad_before)
        mm == data_field_min_max(df, Len(s.kernel_shape))
        layout == input_layout_strides(s)
        zones == zones_loop(s, output, mm, 1, [valid |-> <<>>, invalid |-> <<>>])
    IN [spec |-> s,
        padded |-> \/ \E d \in 1..Len(pad_before) : pad_before[d] # 0
                   \/ \E d \in 1..Len(pad_after) : pad_after[d] # 0,
        pad_before |-> pad_before,
        pad_after |-> pad_after,
        output_shape |-> output,
        data_field |-> df,
        data_field_min_max |-> mm,
        standard_layout_data_field |-> standard_layout_data_field(df, layout),
        op_strides_times_input_storage_strides |-> ZipMul(s.strides, layout),
        valid_output_zone |-> zones.valid,
        invalid_output_zones |-> zones.invalid]

----------------------------------------------------------------------------
(* Patch: rank, is_valid, the position iterators, global_offset_for *)

rank(p) == Len(p.spec.input_shape)

\* the coordinates of the output index space
OutputCoords(p) ==
    {c \in [1..Len(p.output_shape) -> 0..SetMax({p.output_shape[a] : a \in 1..Len(p.output_shape)})] :
        \A a \in 1..Len(p.output_shape) : c[a] < p.output_shape[a]}

is_valid(p, coords) ==
    \A ix \in 1..rank(p) :
        LET pos == coords[ix] * p.spec.strides[ix]
            min_max == p.data_field_min_max[ix]
        IN ~(\/ pos + min_max[1] < 0
             \/ pos + min_max[2] >= p.spec.input_shape[ix])

HintNone == [some |-> FALSE, val |-> FALSE]

HintSome(b) == [some |-> TRUE, val |-> b]

Hints == {HintNone, HintSome(TRUE), HintSome(FALSE)}

NoIter == [kind |-> "None", center |-> 0, item |-> 0,
           input_patch_center |-> <<>>, coords |-> <<>>]

\* mutant of at_hint: input_patch_center is not scaled by the strides
at_hint_unscaled_center(p, coords, hint) ==
    LET center == SeqSum(ZipMul(p.op_strides_times_input_storage_strides, coords))
        valid == IF hint.some THEN hint.val ELSE (~p.padded \/ is_valid(p, coords))
    IN IF valid
       THEN [kind |-> "Fast", center |-> center, item |-> 0,
             input_patch_center |-> <<>>, coords |-> coords]
       ELSE [kind |-> "Safe", center |-> center, item |-> 0,
             input_patch_center |-> coords, coords |-> coords]

\* at_hint; the field coords only records the argument of the call
at_hint(p, coords, hint) ==
    LET center == SeqSum(ZipMul(p.op_strides_times_input_storage_strides, coords))
        valid == IF hint.some THEN hint.val ELSE (~p.padded \/ is_valid(p, coords))
    IN IF valid
       THEN [kind |-> "Fast", center |-> center, item |-> 0,
             input_patch_center |-> <<>>, coords |-> coords]
       ELSE [kind |-> "Safe", center |-> center, item |-> 0,
             input_patch_center |-> ZipMul(coords, p.spec.strides),
             coords |-> coords]

at(p, coords) == at_hint(p, coords, HintNone)

\* FastPatchIterator::next, the item yielded when one is left
fast_item(p, i) == Some(i.center + p.standard_layout_data_field[i.item + 1])

\* mutant of safe_item: the upper range test is off by one
safe_item_off_by_one(p, i) ==
    LET n == Len(p.spec.input_shape)
        flat(k) == p.data_field[(k \div Len(p.spec.kernel_shape)) + 1]
                               [(k % Len(p.spec.kernel_shape)) + 1]
        pos(ix) == i.input_patch_center[ix] + flat(i.item * n + (ix - 1))
    IN IF \E ix \in 1..n : pos(ix) < 0 \/ pos(ix) >= p.spec.input_shape[ix] - 1
       THEN None
       ELSE Some(i.center + p.standard_layout_data_field[i.item + 1])

\* SafePatchIterator::next, the item yielded when one is left; data_field is
\* read through a raw pointer at item * input_shape.len() + ix
safe_item(p, i) ==
    LET n == Len(p.spec.input_shape)
        flat(k) == p.data_field[(k \div Len(p.spec.kernel_shape)) + 1]
                               [(k % Len(p.spec.kernel_shape)) + 1]
        pos(ix) == i.input_patch_center[ix] + flat(i.item * n + (ix - 1))
    IN IF \E ix \in 1..n : pos(ix) < 0 \/ pos(ix) >= p.spec.input_shape[ix]
       THEN None
       ELSE Some(i.center + p.standard_layout_data_field[i.item + 1])

next_item(p, i) == IF i.kind = "Fast" THEN fast_item(p, i) ELSE safe_item(p, i)

exhausted(p, i) == i.item = Len(p.standard_layout_data_field)

\* every item an iterator yields from its current position on
RECURSIVE collect(_, _)
collect(p, i) ==
    IF exhausted(p, i) THEN <<>>
    ELSE <<next_item(p, i)>> \o collect(p, [i EXCEPT !.item = @ + 1])

\* mutant of global_offset_for: the center uses the op strides alone
global_offset_for_op_strides(p, coords, patch_index) ==
    LET center == SeqSum(ZipMul(coords, p.spec.strides))
    IN as_usize(center + p.standard_layout_data_field[patch_index + 1])

global_offset_for(p, coords, patch_index) ==
    LET center == SeqSum(ZipMul(coords, p.op_strides_times_input_storage_strides))
    IN as_usize(center + p.standard_layout_data_field[patch_index + 1])

----------------------------------------------------------------------------
(* Zone visitors: visit_zone_1 / _2 / _d and visit_all_1 / _2 / _d *)

\* the axes a visitor reads: visit_zone_1 reads zone[0], visit_zone_2 reads
\* zone[0] and zone[1], visit_zone_d reads every axis of the zone
visit_axes(variant, zone) ==
    CASE variant = "1" -> 1
      [] variant = "2" -> 2
      [] variant = "d" -> Len(zone)

\* zone[a].end - zone[a].start overflows on some axis the visitor reads
zone_shape_overflows(variant, zone) ==
    \E a \in 1..visit_axes(variant, zone) : zone[a].end < zone[a].start

\* the shape handed to ndarray::indices (the subtraction wraps when it overflows)
zone_shape(variant, zone) ==
    [a \in 1..visit_axes(variant, zone) |->
        (zone[a].end - zone[a].start) % UsizeModulus]

\* ndarray's Indices iterator starts at the zero index unless the shape is empty
first_index(shape) ==
    IF \E a \in 1..Len(shape) : shape[a] = 0
    THEN [live |-> FALSE, idx |-> <<>>]
    ELSE [live |-> TRUE, idx |-> [a \in 1..Len(shape) |-> 0]]

\* Dimension::next_for: the row-major successor of idx in shape, axis a downwards
RECURSIVE next_for(_, _, _)
next_for(shape, idx, a) ==
    IF a = 0 THEN [live |-> FALSE, idx |-> <<>>]
    ELSE IF idx[a] + 1 < shape[a]
         THEN [live |-> TRUE, idx |-> [idx EXCEPT ![a] = @ + 1]]
         ELSE next_for(shape, [idx EXCEPT ![a] = 0], a - 1)

\* zone number 0 is valid_output_zone, zone number k is invalid_output_zones[k - 1]
visit_zone_of(p, zi) ==
    IF zi = 0 THEN p.valid_output_zone ELSE p.invalid_output_zones[zi]

NoVisit == [status |-> "idle", variant |-> "d", zi |-> 0, shape |-> <<>>,
            live |-> FALSE, idx |-> <<>>]

\* visit_zone_*(zone, hint): the state of the visitor entering zone number zi
visit_zone(p, variant, zi, checks) ==
    LET zone == visit_zone_of(p, zi)
        shape == zone_shape(variant, zone)
        first == first_index(shape)
    IN IF checks /\ zone_shape_overflows(variant, zone)
       THEN [NoVisit EXCEPT !.status = "panicked", !.variant = variant, !.zi = zi]
       ELSE [status |-> "active", variant |-> variant, zi |-> zi, shape |-> shape,
             live |-> first.live, idx |-> first.idx]

\* the chain / flat_map of visit_all_*: from a visitor whose current zone has
\* no index left, enter the following zones until one yields or none is left
RECURSIVE seek(_, _, _)
seek(p, v, checks) ==
    IF v.status # "active" \/ v.live THEN v
    ELSE IF v.zi = Len(p.invalid_output_zones)
         THEN [v EXCEPT !.status = "done"]
         ELSE seek(p, visit_zone(p, v.variant, v.zi + 1, checks), checks)

\* the coordinate yielded at index idx of the current zone
visit_coords(p, v) ==
    [a \in 1..Len(v.idx) |-> visit_zone_of(p, v.zi)[a].start + v.idx[a]]

OutputVolume(p) == SeqProduct(p.output_shape)

----------------------------------------------------------------------------
(* Window specifications *)

Paddings(n, maxPad) ==
    {Valid, SameUpper, SameLower}
        \cup {Explicit(b, a) : b \in [1..n -> 0..maxPad], a \in [1..n -> 0..maxPad]}

\* PatchSpec values as for_data_shape and the with_* builders make them, all
\* sequences of length n
PatchSpecs(n, maxInput, maxKernel, maxPad, maxInner) ==
    [input_shape : [1..n -> 1..maxInput],
     input_inner_stride : 1..maxInner,
     output_inner_stride : {1},
     kernel_shape : [1..n -> 1..maxKernel],
     strides : [1..n -> 1..MaxStride],
     dilations : [1..n -> 1..MaxDilation],
     padding : Paddings(n, maxPad)]

\* the sequences of n naturals whose sum is at most w
RECURSIVE vectors_up_to(_, _)
vectors_up_to(n, w) ==
    IF n = 0 THEN {<<>>}
    ELSE UNION {{<<k>> \o r : r \in vectors_up_to(n - 1, w - k)} : k \in 0..w}

\* the rank 2 PatchSpec whose parameters exceed their least values by v
\* (v[10..13] are the explicit pad amounts, when there are any)
rank2_spec(v, padding) ==
    [input_shape |-> <<1 + v[1], 1 + v[2]>>,
     input_inner_stride |-> 1 + v[9],
     output_inner_stride |-> 1,
     kernel_shape |-> <<1 + v[3], 1 + v[4]>>,
     strides |-> <<1 + v[5], 1 + v[6]>>,
     dilations |-> <<1 + v[7], 1 + v[8]>>,
     padding |-> padding]

\* the rank 2 specifications whose parameters exceed their least values
\* (extents, strides and dilations 1, pad amounts 0) by at most MaxWeight in all
Rank2Specs ==
    {rank2_spec(v, padding) :
        v \in vectors_up_to(9, MaxWeight), padding \in {Valid, SameUpper, SameLower}}
    \cup {rank2_spec(v, Explicit(<<v[10], v[11]>>, <<v[12], v[13]>>)) :
            v \in vectors_up_to(13, MaxWeight)}

Rank1Specs == PatchSpecs(1, MaxInput, MaxKernel, MaxPad, MaxInnerStride)

\* the specification of the test helper field(kdim, dilations)
field_spec(kdim, dilations) ==
    [input_shape |-> [a \in 1..Len(kdim) |-> 10],
     input_inner_stride |-> 1,
     output_inner_stride |-> 1,
     kernel_shape |-> kdim,
     strides |-> [a \in 1..Len(kdim) |-> 1],
     dilations |-> dilations,
     padding |-> Explicit([a \in 1..Len(kdim) |-> 0], [a \in 1..Len(kdim) |-> 0])]

\* the specifications test_field builds
TestSpecs ==
    {field_spec(<<3>>, <<1>>), field_spec(<<3>>, <<2>>),
     field_spec(<<2, 2>>, <<1, 1>>), field_spec(<<2, 2>>, <<2, 1>>)}

\* the window specifications of Spec
WindowSpecs == Rank1Specs \cup Rank2Specs \cup TestSpecs

\* sequences of length 1..MaxLen over S
SeqsUpTo(S) == UNION {[1..n -> S] : n \in 1..MaxLen}

\* specifications whose sequences need not have the same length: the with_*
\* builders take any vector
AnyRankSpecs ==
    [input_shape : SeqsUpTo(2..3),
     input_inner_stride : {1},
     output_inner_stride : {1},
     kernel_shape : SeqsUpTo(1..2),
     strides : SeqsUpTo(1..2),
     dilations : SeqsUpTo(1..2),
     padding : {Valid, SameUpper, SameLower}
                 \cup {Explicit(b, a) : b \in SeqsUpTo(0..1), a \in SeqsUpTo({0})}]

NoPatch == [built |-> FALSE]

\* A behaviour makes one call on the Patch it built (one iterator, one
\* lookup or one visit).  The Patch is immutable, so calls do not interact.
NoCall == [coords |-> <<>>, patch_index |-> 0, result |-> 0]

InitWith(specs) ==
    /\ spec \in specs
    /\ overflow_checks \in BOOLEAN
    /\ pc = "spec"
    /\ patch = NoPatch
    /\ it = NoIter
    /\ yielded = <<>>
    /\ goff = NoCall
    /\ visit = NoVisit
    /\ visited = <<>>

Init == InitWith(WindowSpecs)

InitAnyRank == InitWith(AnyRankSpecs)

IntoPatch ==
    /\ pc = "spec"
    /\ IF into_patch_panics(spec, overflow_checks)
       THEN pc' = "panicked" /\ UNCHANGED patch
       ELSE pc' = "built" /\ patch' = into_patch(spec)
    /\ UNCHANGED <<spec, overflow_checks, it, yielded, goff, visit, visited>>

Idle == it = NoIter /\ goff = NoCall /\ visit = NoVisit

At ==
    /\ pc = "built"
    /\ Idle
    /\ \E coords \in OutputCoords(patch), hint \in Hints :
          IF Len(coords) # Len(patch.spec.kernel_shape)
          THEN /\ pc' = "panicked"
               /\ UNCHANGED it
          ELSE /\ it' = at_hint(patch, coords, hint)
               /\ UNCHANGED pc
    /\ UNCHANGED <<spec, overflow_checks, patch, yielded, goff, visit, visited>>

IteratorNext ==
    /\ pc = "built"
    /\ it.kind # "None"
    /\ IF exhausted(patch, it)
       THEN UNCHANGED <<it, yielded>>
       ELSE /\ yielded' = Append(yielded, next_item(patch, it))
            /\ it' = [it EXCEPT !.item = @ + 1]
    /\ UNCHANGED <<spec, overflow_checks, pc, patch, goff, visit, visited>>

GlobalOffsetFor ==
    /\ pc = "built"
    /\ Idle
    /\ \E coords \in OutputCoords(patch),
          patch_index \in 0..(Len(patch.standard_layout_data_field) - 1) :
          IF Len(coords) # Len(patch.spec.kernel_shape)
          THEN /\ pc' = "panicked"
               /\ UNCHANGED goff
          ELSE /\ goff' = [coords |-> coords, patch_index |-> patch_index,
                           result |-> global_offset_for(patch, coords, patch_index)]
               /\ UNCHANGED pc
    /\ UNCHANGED <<spec, overflow_checks, patch, it, yielded, visit, visited>>

\* visit_all_1 / visit_all_2 / visit_all_d: visit_valid_* calls visit_zone_*
\* on valid_output_zone at once; the invalid zones are entered lazily
VisitAll(variant) ==
    /\ pc = "built"
    /\ Idle
    /\ variant = "1" => rank(patch) = 1
    /\ variant = "2" => rank(patch) = 2
    /\ visit' = visit_zone(patch, variant, 0, overflow_checks)
    /\ pc' = IF visit'.status = "panicked" THEN "panicked" ELSE pc
    /\ UNCHANGED <<spec, overflow_checks, patch, it, yielded, goff, visited>>

VisitAll1 == VisitAll("1")

VisitAll2 == VisitAll("2")

VisitAllD == VisitAll("d")

\* one next() of the visit_all_* iterator
VisitNext ==
    /\ pc = "built"
    /\ visit.status = "active"
    /\ Len(visited) < OutputVolume(patch) + MaxOverrun
    /\ LET v == seek(patch, visit, overflow_checks)
       IN IF v.status = "active"
          THEN /\ visited' = Append(visited, visit_coords(patch, v))
               /\ LET nx == next_for(v.shape, v.idx, Len(v.idx))
                  IN visit' = [v EXCEPT !.live = nx.live, !.idx = nx.idx]
               /\ UNCHANGED pc
          ELSE /\ visit' = v
               /\ pc' = IF v.status = "panicked" THEN "panicked" ELSE pc
               /\ UNCHANGED visited
    /\ UNCHANGED <<spec, overflow_checks, patch, it, yielded, goff>>

Next ==
    \/ IntoPatch
    \/ At
    \/ IteratorNext
    \/ GlobalOffsetFor
    \/ VisitAll1
    \/ VisitAll2
    \/ VisitAllD
    \/ VisitNext

Spec == Init /\ [][Next]_vars

\* into_patch alone, over specifications of mixed sequence lengths
NextAnyRank == IntoPatch

SpecAnyRank == InitAnyRank /\ [][NextAnyRank]_vars

----------------------------------------------------------------------------
(* Properties *)

\* in_zone of the tests: coords lies in every range of zone
in_zone(coords, zone) ==
    \A a \in 1..Len(zone) : zone[a].start <= coords[a] /\ coords[a] < zone[a].end

\* the number of invalid zones that hold coords
invalid_count(p, coords) ==
    Cardinality({k \in 1..Len(p.invalid_output_zones) :
                    in_zone(coords, p.invalid_output_zones[k])})

\* a Patch was built and no call was made on it yet
Built == pc = "built" /\ Idle

\* C1: every coordinate of the output index space lies in valid_output_zone
\* or in exactly one invalid zone, never in both and never in two invalid zones.
C1_Tiling ==
    Built =>
        \A c \in OutputCoords(patch) :
            IF in_zone(c, patch.valid_output_zone)
            THEN invalid_count(patch, c) = 0
            ELSE invalid_count(patch, c) = 1

\* C2: for every output coordinate, is_valid agrees with membership in
\* valid_output_zone.
C2_IsValidIffInValidZone ==
    Built =>
        \A c \in OutputCoords(patch) :
            is_valid(patch, c) <=> in_zone(c, patch.valid_output_zone)

\* the input position of tap t (row t of data_field) on axis a at output
\* coordinate c
tap_position(p, c, t, a) == c[a] * p.spec.strides[a] + p.data_field[t][a]

tap_in_input(p, c, t) ==
    \A a \in 1..rank(p) :
        /\ 0 <= tap_position(p, c, t, a)
        /\ tap_position(p, c, t, a) < p.spec.input_shape[a]

InputLength(p) == p.spec.input_inner_stride * SeqProduct(p.spec.input_shape)

\* C3: at every coordinate of valid_output_zone every tap lies inside the
\* input on every axis, and every item of the fast iterator is a flat offset
\* in [0, input_inner_stride * product(input_shape)).
C3_ValidZoneNeverReadsPadding ==
    Built =>
        \A c \in OutputCoords(patch) :
            in_zone(c, patch.valid_output_zone) =>
                LET items == collect(patch, at_hint(patch, c, HintSome(TRUE)))
                IN \A t \in 1..Len(patch.data_field) :
                      /\ tap_in_input(patch, c, t)
                      /\ items[t].some
                      /\ 0 <= items[t].val
                      /\ items[t].val < InputLength(patch)

\* the flat offset of tap t at output coordinate c
flat_offset(p, c, t) ==
    SeqSum([a \in 1..rank(p) |-> c[a] * p.op_strides_times_input_storage_strides[a]])
        + p.standard_layout_data_field[t]

\* the coordinates the fast path accepts
fast_accepts(p, c) == is_valid(p, c) \/ ~p.padded

\* C4: at a coordinate the fast path accepts, the safe iterator and the fast
\* iterator yield the same sequence: the same length, and every item a Some
\* with the same flat offset.  Stated on the running iterator of either kind
\* against the whole sequence of the other kind.
C4_SafeEqualsFast ==
    (pc = "built" /\ it.kind # "None" /\ fast_accepts(patch, it.coords)) =>
        LET other == collect(patch, at_hint(patch, it.coords, HintSome(it.kind = "Safe")))
        IN /\ Len(yielded) <= Len(other)
           /\ exhausted(patch, it) => Len(yielded) = Len(other)
           /\ \A t \in 1..Len(yielded) : yielded[t].some /\ yielded[t] = other[t]

C4_Witness ==
    /\ pc = "built"
    /\ it.kind = "Safe"
    /\ patch.padded
    /\ Len(patch.invalid_output_zones) > 0
    /\ is_valid(patch, it.coords)
    /\ exhausted(patch, it)
    /\ Len(yielded) >= 2

\* C5: when item t of at(c) is Some(offset), global_offset_for(c, t) is
\* that offset.
C5_GlobalOffsetAgreesWithAt ==
    (pc = "built" /\ goff # NoCall) =>
        LET items == collect(patch, at(patch, goff.coords))
        IN items[goff.patch_index + 1].some =>
              goff.result = items[goff.patch_index + 1].val

C5_Witness ==
    /\ pc = "built"
    /\ goff # NoCall
    /\ rank(patch) = 2
    /\ patch.padded
    /\ ~is_valid(patch, goff.coords)
    /\ goff.patch_index > 0
    /\ collect(patch, at(patch, goff.coords))[goff.patch_index + 1] = Some(goff.result)
    /\ goff.result > 0

\* C6: visit_all yields every coordinate of the output index space exactly
\* once: it repeats none, yields none outside output_shape, and has yielded
\* all of them when it ends.
C6_VisitAllExactlyOnce ==
    /\ \A i \in 1..Len(visited) : visited[i] \in OutputCoords(patch)
    /\ \A i, j \in 1..Len(visited) : i # j => visited[i] # visited[j]
    /\ visit.status = "done" =>
          \A c \in OutputCoords(patch) : \E i \in 1..Len(visited) : visited[i] = c

\* C7: the safe iterator yields one item per kernel tap, in tap order; item t
\* is None iff tap t leaves the input on some axis, and Some of the flat
\* offset otherwise.
C7_SafeIterator ==
    (pc = "built" /\ it.kind = "Safe") =>
        /\ Len(yielded) = it.item
        /\ Len(yielded) <= SeqProduct(patch.spec.kernel_shape)
        /\ exhausted(patch, it) <=> Len(yielded) = SeqProduct(patch.spec.kernel_shape)
        /\ \A t \in 1..Len(yielded) :
              yielded[t] = IF tap_in_input(patch, it.coords, t)
                           THEN Some(flat_offset(patch, it.coords, t))
                           ELSE None

C7_Witness ==
    /\ pc = "built"
    /\ it.kind = "Safe"
    /\ rank(patch) = 2
    /\ exhausted(patch, it)
    /\ \E t1, t2 \in 1..Len(yielded) :
          /\ t1 < t2
          /\ yielded[t1] = None
          /\ yielded[t2].some
          /\ yielded[t2].val > 0

\* the kernel tap whose offsets are row (every component an integer)
tap_of_row(p, row) ==
    [a \in 1..Len(row) |-> (row[a] + p.pad_before[a]) \div p.spec.dilations[a]]

\* lexicographic order on index tuples of the same length
RECURSIVE lex_less(_, _)
lex_less(x, y) ==
    /\ x # <<>>
    /\ \/ Head(x) < Head(y)
       \/ Head(x) = Head(y) /\ lex_less(Tail(x), Tail(y))

\* C8: data_field has one row per kernel tap, in row-major order of the taps,
\* with entry t[a] * dilation[a] - pad_before[a]; data_field_min_max[a] is
\* (-pad_before[a], (kernel_shape[a] - 1) * dilation[a] - pad_before[a]).
C8_DataField ==
    Built =>
        LET p == patch
            s == patch.spec
            n == Len(s.kernel_shape)
            df == patch.data_field
        IN /\ Len(df) = SeqProduct(s.kernel_shape)
           /\ \A r \in 1..Len(df) :
                 /\ Len(df[r]) = n
                 /\ \A a \in 1..n :
                       /\ tap_of_row(p, df[r])[a] \in 0..(s.kernel_shape[a] - 1)
                       /\ df[r][a] = tap_of_row(p, df[r])[a] * s.dilations[a] - p.pad_before[a]
           /\ \A r1, r2 \in 1..Len(df) :
                 r1 < r2 => lex_less(tap_of_row(p, df[r1]), tap_of_row(p, df[r2]))
           /\ \A a \in 1..n :
                 p.data_field_min_max[a] =
                    <<-p.pad_before[a], (s.kernel_shape[a] - 1) * s.dilations[a] - p.pad_before[a]>>
           /\ (s.kernel_shape = <<3>> /\ s.dilations = <<2>> /\ ~p.padded) =>
                 df = << <<0>>, <<2>>, <<4>> >>
           /\ (s.kernel_shape = <<2, 2>> /\ s.dilations = <<2, 1>> /\ ~p.padded) =>
                 df = << <<0, 0>>, <<0, 1>>, <<2, 0>>, <<2, 1>> >>

C8_Witness ==
    /\ Built
    /\ patch.spec.kernel_shape = <<2, 2>>
    /\ patch.spec.dilations = <<2, 1>>
    /\ patch.pad_before = <<1, 0>>
    /\ patch.data_field = << <<-1, 0>>, <<-1, 1>>, <<1, 0>>, <<1, 1>> >>

\* C10: into_patch returns no Patch when input_shape, kernel_shape, strides
\* and dilations do not all have the same length.
C10_MismatchedRankFails ==
    pc = "built" =>
        /\ Len(spec.kernel_shape) = Len(spec.input_shape)
        /\ Len(spec.strides) = Len(spec.input_shape)
        /\ Len(spec.dilations) = Len(spec.input_shape)

\* the zone 0..output_shape[a] on every axis
full_output_zone(p) == [a \in 1..Len(p.output_shape) |-> Range(0, p.output_shape[a])]

\* C11: when the Patch has padded == false, every coordinate of the output
\* index space satisfies is_valid, invalid_output_zones is empty and
\* valid_output_zone is 0..output_shape[a] on every axis; the unhinted at(c)
\* is then the fast iterator, and each of its items is the flat offset of a
\* tap that lies inside the input.  The running iterator of an unpadded Patch
\* that took the fast path has yielded only such offsets.
C11_UnpaddedAllValid ==
    (pc = "built" /\ ~patch.padded) =>
        /\ patch.invalid_output_zones = <<>>
        /\ patch.valid_output_zone = full_output_zone(patch)
        /\ \A c \in OutputCoords(patch) :
              /\ is_valid(patch, c)
              /\ at(patch, c).kind = "Fast"
              /\ LET items == collect(patch, at(patch, c))
                 IN \A t \in 1..Len(patch.data_field) :
                       /\ tap_in_input(patch, c, t)
                       /\ items[t] = Some(flat_offset(patch, c, t))
                       /\ 0 <= items[t].val
                       /\ items[t].val < InputLength(patch)
        /\ it.kind = "Fast" =>
              \A t \in 1..Len(yielded) :
                  /\ tap_in_input(patch, it.coords, t)
                  /\ yielded[t].some
                  /\ 0 <= yielded[t].val
                  /\ yielded[t].val < InputLength(patch)

\* an unpadded Patch with a stride and a dilation above 1 on an axis, whose
\* unhinted iterator ran to its end at the last output coordinate of that axis
C11_Witness ==
    /\ pc = "built"
    /\ ~patch.padded
    /\ it = [at(patch, it.coords) EXCEPT !.item = Len(patch.data_field)]
    /\ \E a \in 1..rank(patch) :
          /\ patch.spec.strides[a] > 1
          /\ patch.spec.dilations[a] > 1
          /\ patch.spec.kernel_shape[a] > 1
          /\ it.coords[a] > 0
          /\ it.coords[a] = patch.output_shape[a] - 1
    /\ Len(yielded) = Len(patch.data_field)
    /\ Len(yielded) >= 2

====
